---- MODULE Spec2Model ----
(***************************************************************************)
(* Model of the DogStatsD replay reader (src/src/dogstatsdreplayreader.rs)  *)
(* and of the replay-to-text dump (src/src/bin/replaydump.rs).             *)
(*                                                                         *)
(* A replay buffer is a sequence of bytes: an 8-byte header (4-byte magic  *)
(* marker, 4-byte version), then frames [4-byte little-endian length n]    *)
(* [n bytes of message], then an 8-byte all-zero sentinel.  Strings are    *)
(* sequences of UTF-8 bytes, as Rust's String and &str are.                 *)
(*                                                                         *)
(* crate::replay::ReplayReader (the Frame Reader) and                      *)
(* DogStatsDReplay::write_to (the dump loop) lie outside these two files;  *)
(* they follow spec.md sections 4.1, 4.3 and 6.  The sentinel test reads   *)
(* "length 0 and no non-zero byte among the up to 4 bytes that follow".    *)
(***************************************************************************)
EXTENDS Integers, Sequences, FiniteSets, TLC

\* ------------------------------------------------------------------ bounds

\* Largest number of frames written before the closing of the buffer.
MaxFrames == 2
\* Largest number of payload bytes, summed over the frames of one buffer.
MaxBytes == 3

\* ------------------------------------------------------------------ bytes

LF == 10
CR == 13
\* Payload bytes the buffers are built from: 'a', '\n', '\r' and 0xFF, a byte
\* that occurs in no well-formed UTF-8 sequence.
Alphabet == {97, LF, CR, 255}

\* Header of the test buffers: d4 74 d0 60 | f3 ff 00 00.
Magic == <<212, 116, 208, 96>>
Version == <<243, 255, 0, 0>>
BadMagic == <<212, 116, 208, 97>>
BadVersion == <<244, 255, 0, 0>>
HeaderLen == 8

\* First byte of every message region of the test buffers (0x08, the tag of
\* the timestamp field): stands for the metadata that precedes the payload.
MetaByte == 8

Sentinel == <<0, 0, 0, 0, 0, 0, 0, 0>>

\* ---------------------------------------------------------------- helpers

RECURSIVE SumLen(_)
SumLen(ps) == IF ps = <<>> THEN 0 ELSE Len(Head(ps)) + SumLen(Tail(ps))

AllZero(bs) == \A i \in 1..Len(bs) : bs[i] = 0

\* ------------------------------------------------- the container format

U32LE(n) ==
  <<n % 256, (n \div 256) % 256, (n \div 65536) % 256, (n \div 16777216) % 256>>

ReadU32LE(b, c) ==
  b[c + 1] + 256 * b[c + 2] + 65536 * b[c + 3] + 16777216 * b[c + 4]

\* One frame: the length prefix, then the message (metadata, then payload).
EncodeFrame(p) == U32LE(Len(p) + 1) \o <<MetaByte>> \o p

RECURSIVE EncodeFrames(_)
EncodeFrames(ps) ==
  IF ps = <<>> THEN <<>> ELSE EncodeFrame(Head(ps)) \o EncodeFrames(Tail(ps))

\* What closes the buffer after its frames.
\*   sentinel : the 8-byte all-zero closing frame
\*   none     : nothing, the buffer ends after the last frame
\*   short    : fewer than 4 bytes, a cut length field
\*   long     : a length field that declares more bytes than remain
Tails == {"sentinel", "none", "short", "long"}

EncodeTail(t) ==
  CASE t = "sentinel" -> Sentinel
    [] t = "none"     -> <<>>
    [] t = "short"    -> <<3, 0>>
    [] t = "long"     -> U32LE(6) \o <<MetaByte, 97>>

\* The message decoded from a frame's region: the payload field.  An empty
\* region decodes to the default message, whose payload is empty.
DecodeMessage(region) ==
  [payload |-> IF region = <<>> THEN <<>> ELSE Tail(region)]

PayloadsUpTo(n) == UNION {[1..k -> Alphabet] : k \in 0..n}

RECURSIVE FrameLists(_, _)
FrameLists(k, budget) ==
  IF k = 0 THEN {<<>>}
  ELSE {<<>>} \cup
       UNION {{<<p>> \o rest : rest \in FrameLists(k - 1, budget - Len(p))} :
              p \in PayloadsUpTo(budget)}

\* Payload lists written after the sentinel: bytes a reader must never reach.
AfterLists == {<<>>, <<<<97, LF>>>>, <<<<255>>>>}

Headers == {Magic \o Version, Magic \o BadVersion,
            BadMagic \o Version, BadMagic \o BadVersion}

EncodeBuffer(h, ps, t, af) ==
  h \o EncodeFrames(ps) \o EncodeTail(t) \o EncodeFrames(af)

\* Offset of the first byte that follows the frames ps.
EndOfFrames(ps) == HeaderLen + 5 * Len(ps) + SumLen(ps)

\* ------------------------------------------------------- the Frame Reader

\* ReplayReader::new: the header check.
ReplayReaderNew(b) ==
  IF Len(b) < 4 \/ SubSeq(b, 1, 4) # Magic THEN "NotAReplayFile"
  ELSE IF Len(b) < HeaderLen \/ SubSeq(b, 5, 8) # Version
       THEN "UnsupportedReplayVersion"
  ELSE "Ok"

\* NextFrame with the cursor left where the frame starts.
NextFrameStuck(b, c) ==
  IF Len(b) - c < 4 \/ ReadU32LE(b, c) = 0 \/ Len(b) - (c + 4) < ReadU32LE(b, c)
  THEN [kind |-> "End", cursor |-> c, at |-> c, payload |-> <<>>]
  ELSE [kind |-> "Frame", cursor |-> c, at |-> c,
        payload |-> DecodeMessage(SubSeq(b, c + 5, c + 4 + ReadU32LE(b, c))).payload]

\* ReplayReader::read_msg (next_frame) at cursor c of buffer b: the result,
\* the cursor it leaves and, for a frame, where it starts and its payload.
NextFrame(b, c) ==
  IF Len(b) - c < 4
  THEN [kind |-> "End", cursor |-> c, at |-> c, payload |-> <<>>]
  ELSE
    LET n  == ReadU32LE(b, c)
        c1 == c + 4
        rest == Len(b) - c1
    IN  IF n = 0 /\ AllZero(SubSeq(b, c1 + 1, c1 + (IF rest < 4 THEN rest ELSE 4)))
        THEN [kind |-> "End", cursor |-> c1, at |-> c, payload |-> <<>>]
        ELSE IF rest < n
        THEN [kind |-> "End", cursor |-> c1, at |-> c, payload |-> <<>>]
        ELSE [kind |-> "Frame", cursor |-> c1 + n, at |-> c,
              payload |-> DecodeMessage(SubSeq(b, c1 + 1, c1 + n)).payload]

\* ---------------------------------------------------- the Message Decoder

Cont(x) == x \in 128..191

\* std::str::from_utf8(..).is_ok(): well-formed UTF-8.
RECURSIVE FromUtf8Ok(_)
FromUtf8Ok(b) ==
  IF b = <<>> THEN TRUE
  ELSE
    LET x == b[1]
        n == Len(b)
    IN  IF x < 128 THEN FromUtf8Ok(Tail(b))
        ELSE IF x \in 194..223
        THEN n >= 2 /\ Cont(b[2]) /\ FromUtf8Ok(SubSeq(b, 3, n))
        ELSE IF x \in 224..239
        THEN /\ n >= 3
             /\ b[2] \in (IF x = 224 THEN 160..191
                          ELSE IF x = 237 THEN 128..159 ELSE 128..191)
             /\ Cont(b[3])
             /\ FromUtf8Ok(SubSeq(b, 4, n))
        ELSE IF x \in 240..244
        THEN /\ n >= 4
             /\ b[2] \in (IF x = 240 THEN 144..191
                          ELSE IF x = 244 THEN 128..143 ELSE 128..191)
             /\ Cont(b[3]) /\ Cont(b[4])
             /\ FromUtf8Ok(SubSeq(b, 5, n))
        ELSE FALSE

\* Index of the first '\n' of v, 0 when there is none.
FirstLF(v) ==
  IF \E i \in 1..Len(v) : v[i] = LF
  THEN CHOOSE i \in 1..Len(v) : v[i] = LF /\ \A j \in 1..(i - 1) : v[j] # LF
  ELSE 0

\* A line without the '\r' that ended it together with the '\n'.
StripCR(l) ==
  IF l # <<>> /\ l[Len(l)] = CR THEN SubSeq(l, 1, Len(l) - 1) ELSE l

\* Lines with the empty lines dropped.
RECURSIVE LinesNoBlank(_)
LinesNoBlank(v) ==
  IF v = <<>> THEN <<>>
  ELSE LET i == FirstLF(v)
       IN  IF i = 0 THEN <<v>>
           ELSE (IF StripCR(SubSeq(v, 1, i - 1)) = <<>> THEN <<>>
                 ELSE <<StripCR(SubSeq(v, 1, i - 1))>>)
                \o LinesNoBlank(SubSeq(v, i + 1, Len(v)))

\* Lines as split('\n'): what follows the last '\n' is a piece of its own,
\* empty or not.
RECURSIVE LinesSplit(_)
LinesSplit(v) ==
  LET i == FirstLF(v)
  IN  IF i = 0 THEN <<v>>
      ELSE <<StripCR(SubSeq(v, 1, i - 1))>> \o LinesSplit(SubSeq(v, i + 1, Len(v)))

\* str::lines(): the text is cut after every '\n'; each piece loses its '\n'
\* and then a '\r' right before it; a last piece without '\n' is kept whole.
RECURSIVE Lines(_)
Lines(v) ==
  IF v = <<>> THEN <<>>
  ELSE LET i == FirstLF(v)
       IN  IF i = 0 THEN <<v>>
           ELSE <<StripCR(SubSeq(v, 1, i - 1))>> \o Lines(SubSeq(v, i + 1, Len(v)))

Reverse(sq) == [i \in 1..Len(sq) |-> sq[Len(sq) + 1 - i]]

\* PushLines with push_front in place of push_back.
PushLinesFront(q, v) == Reverse(Lines(v)) \o q

\* for line in v.lines() { current_messages.push_back(String::from(line)) }
PushLines(q, v) == q \o Lines(v)

\* InsertStr0 with push_str in place of insert_str(0, ..).
InsertStrEnd(str, line) == str \o line

\* s.insert_str(0, &line)
InsertStr0(str, line) == line \o str

\* HasPending with the queue never looked at before a frame is pulled.
HasPendingNever(q) == FALSE

\* HasPending with the next frame pulled while one line is still queued.
HasPendingAhead(q) == Len(q) > 1

\* if let Some(line) = self.current_messages.pop_front()
HasPending(q) == q # <<>>

\* IsEmpty with the check left out.
IsEmptyNever(v) == FALSE

\* v.is_empty()
IsEmpty(v) == v = <<>>

VARIABLES
  buf,               \* the replay buffer
  frames,            \* the payloads the buffer was built from, in order
  tail,              \* how the buffer was closed after them
  after,             \* the payloads written after the closing
  built,             \* result of DogStatsDReplayReader::new
  cursor,            \* replay_msg_reader: bytes of buf consumed so far
  current_messages,  \* the pending-line queue
  s,                 \* the caller's string
  res,               \* result of the last read_msg call
  delivered,         \* the lines of the calls that returned Ok(1), in order
  pulls,             \* the frames the Frame Reader returned, in order
  ends,              \* the offsets at which the Frame Reader returned End
  lastPull,          \* what the Frame Reader answered when last asked
  errs,              \* number of calls that returned InvalidUtf8Sequence
  dump,              \* position of the dump loop
  calls,             \* number of read_msg calls the dump loop has made
  dest               \* the bytes written to the destination

vars == <<buf, frames, tail, after, built, cursor, current_messages, s, res,
          delivered, pulls, ends, lastPull, errs, dump, calls, dest>>

\* PopResult with pop_back in place of pop_front.
PopBackResult(cur, q, str) ==
  [res |-> "Ok1", cursor |-> cur, queue |-> SubSeq(q, 1, Len(q) - 1),
   s |-> InsertStr0(str, q[Len(q)]), line |-> <<q[Len(q)]>>,
   pulled |-> <<>>, ended |-> {}]

\* The first arm of read_msg: the front line leaves the queue for the
\* caller's string; the Frame Reader is not asked.
PopResult(cur, q, str) ==
  [res |-> "Ok1", cursor |-> cur, queue |-> Tail(q),
   s |-> InsertStr0(str, Head(q)), line |-> <<Head(q)>>,
   pulled |-> <<>>, ended |-> {}]

\* return Ok(0) for a frame whose text is empty
EmptyResult(f, q, str) ==
  [res |-> "Ok0", cursor |-> f.cursor, queue |-> q, s |-> str,
   line |-> <<>>, pulled |-> <<f>>, ended |-> {}]

\* ErrResult with the decoding error swallowed.
ErrSwallowed(f, q, str) ==
  [res |-> "Ok0", cursor |-> f.cursor, queue |-> q, s |-> str,
   line |-> <<>>, pulled |-> <<f>>, ended |-> {}]

\* The longest prefix of b that is valid text.
ValidPrefix(b) ==
  LET k == CHOOSE k \in 0..Len(b) :
             /\ FromUtf8Ok(SubSeq(b, 1, k))
             /\ \A j \in (k + 1)..Len(b) : ~FromUtf8Ok(SubSeq(b, 1, j))
  IN  SubSeq(b, 1, k)

\* ErrResult with the lines of the valid prefix queued before the error.
ErrQueuesPrefix(f, q, str) ==
  [res |-> "InvalidUtf8Sequence", cursor |-> f.cursor,
   queue |-> q \o Lines(ValidPrefix(f.payload)), s |-> str,
   line |-> <<>>, pulled |-> <<f>>, ended |-> {}]

\* Err(e) => Err(InvalidUtf8Sequence)
ErrResult(f, q, str) ==
  [res |-> "InvalidUtf8Sequence", cursor |-> f.cursor, queue |-> q, s |-> str,
   line |-> <<>>, pulled |-> <<f>>, ended |-> {}]

\* EndResult with the end of the stream reported as an error.
EndAsError(f, q, str) ==
  [res |-> "InvalidUtf8Sequence", cursor |-> f.cursor, queue |-> q, s |-> str,
   line |-> <<>>, pulled |-> <<>>, ended |-> {f.at}]

\* EndResult with the caller's string cleared at the end of the stream.
EndClears(f, q, str) ==
  [res |-> "Ok0", cursor |-> f.cursor, queue |-> q, s |-> <<>>,
   line |-> <<>>, pulled |-> <<>>, ended |-> {f.at}]

\* None => Ok(0)
EndResult(f, q, str) ==
  [res |-> "Ok0", cursor |-> f.cursor, queue |-> q, s |-> str,
   line |-> <<>>, pulled |-> <<>>, ended |-> {f.at}]

\* read_msg on the decoder (cur, q) with the caller's string str: the result
\* and the state left, with the frames pulled and the End seen on the way.
RECURSIVE ReadMsgResult(_, _, _)
ReadMsgResult(cur, q, str) ==
  IF HasPending(q) THEN PopResult(cur, q, str)
  ELSE
    LET f == NextFrame(buf, cur)
    IN  IF f.kind = "Frame"
        THEN
          IF FromUtf8Ok(f.payload)
          THEN
            IF IsEmpty(f.payload) THEN EmptyResult(f, q, str)
            ELSE
              LET r == ReadMsgResult(f.cursor, PushLines(q, f.payload), str)
              IN  [r EXCEPT !.pulled = <<f>> \o @]
          ELSE ErrResult(f, q, str)
        ELSE EndResult(f, q, str)

\* NewResult with the two error arms exchanged.
NewResultSwapped(b) ==
  LET e == ReplayReaderNew(b)
  IN  CASE e = "Ok" -> "Ok"
        [] e = "NotAReplayFile" -> "UnsupportedReplayVersion"
        [] e = "UnsupportedReplayVersion" -> "NotAReplayFile"

\* DogStatsDReplayReader::new: the Frame Reader's result under the same name.
NewResult(b) ==
  LET e == ReplayReaderNew(b)
  IN  CASE e = "Ok" -> "Ok"
        [] e = "NotAReplayFile" -> "NotAReplayFile"
        [] e = "UnsupportedReplayVersion" -> "UnsupportedReplayVersion"

\* Exhausted with every result of 0 taken for the end.
ExhaustedOnZero(b, c, q) == TRUE

\* The probe of the dump loop: no frame left and no queued line.
Exhausted(b, c, q) == NextFrame(b, c).kind = "End" /\ q = <<>>

Init ==
  /\ frames \in FrameLists(MaxFrames, MaxBytes)
  /\ tail \in Tails
  /\ after \in (IF tail = "sentinel" THEN AfterLists ELSE {<<>>})
  /\ \E h \in (IF tail = "sentinel" /\ after = <<>>
               THEN Headers ELSE {Magic \o Version}) :
       buf = EncodeBuffer(h, frames, tail, after)
  /\ built = "unbuilt"
  /\ cursor = 0
  /\ current_messages = <<>>
  /\ s = <<>>
  /\ res = "none"
  /\ delivered = <<>>
  /\ pulls = <<>>
  /\ ends = {}
  /\ lastPull = "none"
  /\ errs = 0
  /\ dump = "idle"
  /\ calls = 0
  /\ dest = <<>>

\* let mut replay = DogStatsDReplayReader::new(buf)
New ==
  /\ built = "unbuilt"
  /\ built' = NewResult(buf)
  /\ cursor' = IF NewResult(buf) = "Ok" THEN HeaderLen ELSE cursor
  /\ current_messages' = <<>>
  /\ UNCHANGED <<buf, frames, tail, after, s, res, delivered, pulls, ends,
                 lastPull, errs, dump, calls, dest>>

\* The decoder and the bookkeeping after one read_msg call with result r.
Apply(r) ==
  /\ res' = r.res
  /\ cursor' = r.cursor
  /\ current_messages' = r.queue
  /\ delivered' = delivered \o r.line
  /\ pulls' = pulls \o r.pulled
  /\ ends' = ends \cup r.ended
  /\ lastPull' = IF r.ended # {} THEN "End"
                 ELSE IF r.pulled # <<>> THEN "Frame" ELSE lastPull
  /\ errs' = IF r.res = "InvalidUtf8Sequence" THEN errs + 1 ELSE errs

\* replay.read_msg(&mut s)
ReadMsg ==
  /\ built = "Ok"
  /\ dump = "idle"
  /\ LET r == ReadMsgResult(cursor, current_messages, s)
     IN  Apply(r) /\ s' = r.s
  /\ UNCHANGED <<buf, frames, tail, after, built, dump, calls, dest>>

\* s.clear(), as the callers do between two reads
Clear ==
  /\ built = "Ok"
  /\ dump = "idle"
  /\ s # <<>>
  /\ s' = <<>>
  /\ UNCHANGED <<buf, frames, tail, after, built, cursor, current_messages,
                 res, delivered, pulls, ends, lastPull, errs, dump, calls,
                 dest>>

Next == New \/ ReadMsg \/ Clear

Spec == Init /\ [][Next]_vars

\* replay.write_to(destination): the loop starts with an empty string.
DumpStart ==
  /\ built = "Ok"
  /\ dump = "idle"
  /\ dump' = "running"
  /\ UNCHANGED <<buf, frames, tail, after, built, cursor, current_messages,
                 s, res, delivered, pulls, ends, lastPull, errs, calls,
                 dest>>

\* One turn of the dump loop: a read; a line is written with a newline and
\* the string cleared; on 0 the loop stops if the stream is exhausted; an
\* error is returned at once.
DumpIter ==
  /\ dump = "running"
  /\ LET r == ReadMsgResult(cursor, current_messages, s)
     IN  /\ Apply(r)
         /\ calls' = calls + 1
         /\ IF r.res = "Ok1"
            THEN /\ dest' = dest \o r.s \o <<LF>>
                 /\ s' = <<>>
                 /\ dump' = "running"
            ELSE IF r.res = "Ok0"
            THEN /\ dest' = dest
                 /\ s' = r.s
                 /\ dump' = IF Exhausted(buf, r.cursor, r.queue)
                            THEN "done" ELSE "running"
            ELSE /\ dest' = dest
                 /\ s' = r.s
                 /\ dump' = r.res
  /\ UNCHANGED <<buf, frames, tail, after, built>>

NextDump == New \/ DumpStart \/ DumpIter

SpecDump == Init /\ [][NextDump]_vars

\* --------------------------------------------------------------- claims

AllValid(ps) == \A i \in 1..Len(ps) : FromUtf8Ok(ps[i])

\* The newline-separated records of a text, one record per line: the text is
\* cut at every '\n', and nothing follows a last '\n'.  With crlf, a record
\* cut at a '\n' also loses the '\r' right before that '\n'.
RECURSIVE RecordsOf(_, _)
RecordsOf(v, crlf) ==
  IF v = <<>> THEN <<>>
  ELSE IF \A i \in 1..Len(v) : v[i] # LF THEN <<v>>
  ELSE LET i == CHOOSE k \in 1..Len(v) :
                  v[k] = LF /\ \A j \in 1..(k - 1) : v[j] # LF
           piece == SubSeq(v, 1, i - 1)
           rec == IF crlf /\ piece # <<>> /\ piece[Len(piece)] = CR
                  THEN SubSeq(piece, 1, Len(piece) - 1) ELSE piece
       IN  <<rec>> \o RecordsOf(SubSeq(v, i + 1, Len(v)), crlf)

RECURSIVE AllRecords(_, _)
AllRecords(ps, crlf) ==
  IF ps = <<>> THEN <<>>
  ELSE RecordsOf(Head(ps), crlf) \o AllRecords(Tail(ps), crlf)

\* The Frame Reader has just reported End for the first time.
FirstEnd == built = "Ok" /\ lastPull = "End" /\ Cardinality(ends) = 1

\* C1 as stated: when the Frame Reader first reports End, the lines delivered
\* by the calls that returned Ok(1) are the newline-delimited records of the
\* frames, frame after frame, in order.
C1_Original ==
  (FirstEnd /\ AllValid(frames)) => delivered = AllRecords(frames, FALSE)

\* C1, amended: when the Frame Reader first reports End, the lines delivered
\* by the calls that returned Ok(1) are the lines of the frames, frame after
\* frame and in order within a frame, none lost, repeated, moved or merged,
\* a line ending being '\n' or '\r\n'.
C1_InOrder ==
  (FirstEnd /\ AllValid(frames)) => delivered = AllRecords(frames, TRUE)

C1_Witness ==
  FirstEnd /\ AllValid(frames) /\ Len(frames) = 2 /\ Len(delivered) = 3

\* One read_msg call on a frame of k records: a call with queued records
\* returns the front one and does not ask the Frame Reader; a call that pulls
\* a frame of non-empty text returns its first record and queues the others
\* in order; with the queue empty at the sentinel the call returns Ok(0).
C2Step(crlf) ==
  LET f == NextFrame(buf, cursor)
      recs == RecordsOf(f.payload, crlf)
  IN  /\ current_messages # <<>> =>
           /\ res' = "Ok1"
           /\ delivered' = Append(delivered, Head(current_messages))
           /\ current_messages' = Tail(current_messages)
           /\ cursor' = cursor /\ pulls' = pulls /\ ends' = ends
      /\ (/\ current_messages = <<>> /\ f.kind = "Frame"
          /\ FromUtf8Ok(f.payload) /\ f.payload # <<>>) =>
           /\ res' = "Ok1"
           /\ delivered' = Append(delivered, Head(recs))
           /\ current_messages' = Tail(recs)
           /\ pulls' = Append(pulls, f)
      /\ (/\ current_messages = <<>> /\ tail = "sentinel"
          /\ cursor = EndOfFrames(frames)) =>
           /\ res' = "Ok0" /\ delivered' = delivered /\ lastPull' = "End"

\* C2 as stated: the k newline-separated records of a frame are returned by
\* k consecutive calls, in order, before the next frame is asked for, and the
\* call after the last frame's records returns Ok(0).
C2_Original == [][ReadMsg => C2Step(FALSE)]_vars

\* C2, amended: the same, each record being returned without the '\r' that
\* stands right before its '\n'.
C2_Records == [][ReadMsg => C2Step(TRUE)]_vars

C2_Witness ==
  /\ res = "Ok0" /\ lastPull = "End" /\ tail = "sentinel"
  /\ Len(frames) = 1 /\ Len(delivered) = 2
  /\ \E i \in 1..Len(frames[1]) : frames[1][i] = CR

SomeEmptyPulled == \E i \in 1..Len(pulls) : pulls[i].payload = <<>>

\* C3: a call that pulls a frame with an empty payload returns Ok(0), emits
\* no line, and the Frame Reader has not reported End; after such a frame a
\* call that pulls a frame of non-empty text still returns Ok(1) with its
\* first line.
C3_EmptyPayload ==
  [][ReadMsg =>
      LET f == NextFrame(buf, cursor)
      IN  /\ (current_messages = <<>> /\ f.kind = "Frame" /\ f.payload = <<>>) =>
               /\ res' = "Ok0" /\ delivered' = delivered /\ s' = s
               /\ current_messages' = <<>> /\ cursor' = f.cursor
               /\ ends' = ends /\ lastPull' = "Frame"
          /\ (/\ SomeEmptyPulled /\ current_messages = <<>> /\ f.kind = "Frame"
              /\ FromUtf8Ok(f.payload) /\ f.payload # <<>>) =>
               /\ res' = "Ok1"
               /\ delivered' = Append(delivered, Head(Lines(f.payload)))]_vars

C3_Witness ==
  /\ res = "Ok1" /\ Len(pulls) = 2 /\ Len(frames) = 2
  /\ pulls[1].payload = <<>> /\ delivered # <<>>

\* C4 as stated: once a call has returned InvalidUtf8Sequence, no later call
\* returns Ok(1).
C4_Original == errs > 0 => res # "Ok1"

\* C4, amended: InvalidUtf8Sequence ends only the call that met the offending
\* frame.  A call returns it exactly when it pulls a frame whose payload is
\* not valid text; the call emits no line, leaves the queue empty and the
\* Frame Reader just past that frame; a later call that pulls a frame of
\* non-empty valid text returns Ok(1) with its first line.
C4_ErrorSkipsFrame ==
  [][ReadMsg =>
      LET f == NextFrame(buf, cursor)
      IN  /\ (res' = "InvalidUtf8Sequence") <=>
               (current_messages = <<>> /\ f.kind = "Frame" /\ ~FromUtf8Ok(f.payload))
          /\ res' = "InvalidUtf8Sequence" =>
               /\ delivered' = delivered /\ s' = s /\ current_messages' = <<>>
               /\ cursor' = f.cursor /\ errs' = errs + 1
          /\ (/\ errs > 0 /\ current_messages = <<>> /\ f.kind = "Frame"
              /\ FromUtf8Ok(f.payload) /\ f.payload # <<>>) =>
               /\ res' = "Ok1"
               /\ delivered' = Append(delivered, Head(RecordsOf(f.payload, TRUE)))]_vars

C4_Witness == errs > 0 /\ res = "Ok1" /\ Len(pulls) <= Len(frames)

\* C5: after construction, a buffer whose marker does not match gives
\* NotAReplayFile whatever its version, a buffer with the marker and another
\* version gives UnsupportedReplayVersion, the decoder's result is the Frame
\* Reader's under the same name, and a decoder that was built starts with an
\* empty queue.
C5_Construction ==
  built # "unbuilt" =>
    /\ SubSeq(buf, 1, 4) # Magic => built = "NotAReplayFile"
    /\ (SubSeq(buf, 1, 4) = Magic /\ SubSeq(buf, 5, 8) # Version) =>
         built = "UnsupportedReplayVersion"
    /\ (SubSeq(buf, 1, 4) = Magic /\ SubSeq(buf, 5, 8) = Version) => built = "Ok"
    /\ built = ReplayReaderNew(buf)
    /\ (built = "Ok" /\ res = "none") => current_messages = <<>>
    /\ built # "Ok" => (res = "none" /\ delivered = <<>>)

C5_Witness ==
  /\ built = "NotAReplayFile" /\ SubSeq(buf, 5, 8) # Version /\ frames # <<>>

\* The lines of the frames fs that carry valid text, in order.
RECURSIVE PulledLines(_)
PulledLines(fs) ==
  IF fs = <<>> THEN <<>>
  ELSE (IF FromUtf8Ok(Head(fs).payload)
        THEN RecordsOf(Head(fs).payload, TRUE) ELSE <<>>) \o PulledLines(Tail(fs))

\* C6: a call emits at most one line.  It returns Ok(1) exactly when one line
\* was emitted: the line left the front of the queue (after the lines pulled
\* by this call were put at its back) and the caller's string is the line
\* followed by what it held.  Any other result leaves the string, the queue
\* and the lines emitted as they were.
C6_OneLine ==
  [][ReadMsg =>
      LET n == Len(delivered)
          pushed == PulledLines(SubSeq(pulls', Len(pulls) + 1, Len(pulls')))
      IN  /\ res' \in {"Ok0", "Ok1", "InvalidUtf8Sequence"}
          /\ Len(delivered') \in {n, n + 1}
          /\ SubSeq(delivered', 1, n) = delivered
          /\ (res' = "Ok1") <=> (Len(delivered') = n + 1)
          /\ res' = "Ok1" =>
               /\ s' = delivered'[n + 1] \o s
               /\ <<delivered'[n + 1]>> \o current_messages'
                    = current_messages \o pushed
          /\ res' # "Ok1" =>
               /\ s' = s /\ current_messages' = current_messages]_vars

C6_Witness ==
  /\ res = "Ok1" /\ Len(delivered) = 2
  /\ delivered[1] # <<>> /\ delivered[2] # <<>> /\ delivered[1] # delivered[2]
  /\ s = delivered[2] \o delivered[1]

\* C7: with a sentinel, no frame that starts after the sentinel is ever
\* returned by the Frame Reader, whatever follows the sentinel.
C7_SentinelHalts ==
  tail = "sentinel" =>
    \A i \in 1..Len(pulls) : pulls[i].at < EndOfFrames(frames) + Len(Sentinel)

\* C8: a call that finds fewer than 4 bytes at the cursor, or a length that
\* exceeds the bytes left after it, returns Ok(0), the Frame Reader having
\* reported End, and no error; in a buffer cut short, every complete frame
\* has been returned by then, in order, and the lines of those with valid
\* text have been delivered.
C8_Truncation ==
  [][ReadMsg =>
      LET rem == Len(buf) - cursor
          cut == IF rem < 4 THEN TRUE ELSE ReadU32LE(buf, cursor) > rem - 4
      IN  (current_messages = <<>> /\ cut) =>
            /\ res' = "Ok0" /\ lastPull' = "End"
            /\ delivered' = delivered /\ errs' = errs
            /\ (tail # "sentinel" /\ ends = {}) =>
                 /\ [i \in 1..Len(pulls') |-> pulls'[i].payload] = frames
                 /\ delivered' = PulledLines(pulls')]_vars

C8_Witness ==
  /\ tail = "long" /\ lastPull = "End" /\ res = "Ok0"
  /\ Len(frames) = 2 /\ Len(delivered) >= 2

\* Number of lines of the frame the Frame Reader returned last.
LastFrameLines ==
  IF pulls = <<>> THEN 0 ELSE Len(PulledLines(<<pulls[Len(pulls)]>>))

\* C9: the queue never holds more lines than the frame read last contains.
C9_QueueBound == Len(current_messages) <= LastFrameLines

C9_Witness == Len(current_messages) = 2 /\ Len(pulls) = 1

RECURSIVE WithNewlines(_)
WithNewlines(ls) ==
  IF ls = <<>> THEN <<>> ELSE Head(ls) \o <<LF>> \o WithNewlines(Tail(ls))

\* C10: when the dump has stopped without an error, the Frame Reader has no
\* further frame and the queue is empty, every frame of the buffer was read,
\* the frames after an empty payload too, and the destination holds the
\* lines of the frames read, each followed by a newline, in order.
C10_DumpGoesOn ==
  dump = "done" =>
    /\ NextFrame(buf, cursor).kind = "End" /\ current_messages = <<>>
    /\ Len(pulls) >= Len(frames)
    /\ \A i \in 1..Len(frames) : pulls[i].payload = frames[i]
    /\ dest = WithNewlines(PulledLines(pulls))

C10_Witness ==
  /\ dump = "done" /\ Len(frames) = 2 /\ frames[1] = <<>>
  /\ dest = frames[2] \o <<LF>>

\* C11: a turn of the dump loop that pulls a frame whose payload is not
\* valid text ends the dump with that error at once; the destination then
\* holds the lines of the calls that returned Ok(1) before, each with its
\* newline and in order; a turn only ever appends to the destination, and
\* after the error nothing is written.
C11_ErrorKeepsOutput ==
  [][/\ DumpIter =>
          LET f == NextFrame(buf, cursor)
          IN  /\ (/\ current_messages = <<>> /\ f.kind = "Frame"
                  /\ \E i \in 1..Len(f.payload) : f.payload[i] = 255) =>
                   dump' = "InvalidUtf8Sequence"
              /\ dump' = "InvalidUtf8Sequence" =>
                   /\ res' = "InvalidUtf8Sequence"
                   /\ dest' = dest
                   /\ dest' = WithNewlines(delivered)
              /\ SubSeq(dest', 1, Len(dest)) = dest
     /\ dump = "InvalidUtf8Sequence" => dest' = dest]_vars

C11_Witness ==
  dump = "InvalidUtf8Sequence" /\ delivered = <<<<97>>>> /\ dest = <<97, LF>>

\* C12: the dump never makes more read_msg calls than the buffer has frames,
\* plus the lines of its frames, plus one.
C12_CallBound ==
  calls <= Len(frames) + Len(PulledLines([i \in 1..Len(frames) |->
                                            [payload |-> frames[i]]])) + 1

\* C13: a read_msg call pulls at most one frame; a pulled frame whose text
\* is valid and not empty has at least one line, and the call that pulled it
\* returns Ok(1) with the rest of its lines queued.
C13_OneFramePerCall ==
  [][ReadMsg =>
       /\ Len(pulls') <= Len(pulls) + 1
       /\ Len(pulls') = Len(pulls) + 1 =>
            LET p == pulls'[Len(pulls')].payload
            IN  (FromUtf8Ok(p) /\ p # <<>>) =>
                  /\ Lines(p) # <<>>
                  /\ res' = "Ok1"
                  /\ Len(current_messages') = Len(Lines(p)) - 1]_vars

C13_Witness ==
  /\ Len(pulls) = 2 /\ pulls[1].payload = <<>> /\ pulls[2].payload = <<LF>>
  /\ res = "Ok1" /\ delivered = << <<>> >>

\* The number of '\n' among the first k bytes of p.
NumLF(p, k) == Cardinality({i \in 1..k : p[i] = LF})

\* C14: the lines of a pulled frame are as many as its newlines, plus one
\* when its last byte is not a newline (a trailing newline adds no line); an
\* empty line between two newlines is a line of its own at its position; a
\* payload of one newline is one empty line, returned with Ok(1) and the
\* caller's string as it was.
C14_NewlineSemantics ==
  [][(ReadMsg /\ Len(pulls') = Len(pulls) + 1) =>
       LET p  == pulls'[Len(pulls')].payload
           ls == SubSeq(delivered', Len(delivered) + 1, Len(delivered'))
                   \o current_messages'
       IN  (FromUtf8Ok(p) /\ p # <<>>) =>
             /\ Len(ls) = NumLF(p, Len(p)) + (IF p[Len(p)] = LF THEN 0 ELSE 1)
             /\ \A i \in 1..(Len(p) - 1) :
                  (p[i] = LF /\ p[i + 1] = LF) => ls[NumLF(p, i) + 1] = <<>>
             /\ p = <<LF>> =>
                  /\ ls = << <<>> >>
                  /\ res' = "Ok1"
                  /\ current_messages' = <<>>
                  /\ s' = s]_vars

C14_Witness ==
  /\ Len(pulls) = 1 /\ pulls[1].payload = <<97, LF, LF>>
  /\ delivered = <<<<97>>, <<>>>> /\ current_messages = <<>>

\* C15: the cursor never moves back, and the frames returned lie one after
\* the other in the buffer, so that no frame is returned twice.
C15_ForwardOnly ==
  [][/\ cursor' >= cursor
     /\ \A i, j \in 1..Len(pulls') :
          i < j => /\ pulls'[i].at < pulls'[j].at
                   /\ pulls'[i].cursor <= pulls'[j].at]_vars

C15_Witness ==
  /\ Len(pulls) = 2 /\ pulls[2].at = pulls[1].cursor
  /\ ends # {} /\ cursor > pulls[2].cursor

\* C16: a call made with a line queued leaves the Frame Reader alone (cursor,
\* frames pulled and Ends seen are as before); the lines left in the queue
\* after a call are the last lines of the one frame pulled last.
C16_QueueBeforeReader ==
  [][ReadMsg =>
       /\ current_messages # <<>> =>
            /\ cursor' = cursor
            /\ pulls' = pulls
            /\ ends' = ends
            /\ res' = "Ok1"
       /\ current_messages' # <<>> =>
            /\ pulls' # <<>>
            /\ LET ls == Lines(pulls'[Len(pulls')].payload)
               IN  \E k \in 1..Len(ls) :
                     current_messages' = SubSeq(ls, k + 1, Len(ls))]_vars

C16_Witness ==
  /\ Len(pulls) = 1 /\ pulls[1].payload = <<97, LF, 97>>
  /\ delivered = <<<<97>>, <<97>>>> /\ cursor = pulls[1].cursor

\* C17: a call that returns Ok(0) or InvalidUtf8Sequence leaves the caller's
\* string, the queue and the lines delivered as they were; the cursor is
\* where it was or further on.
C17_NoLineNoEffect ==
  [][(ReadMsg /\ res' \in {"Ok0", "InvalidUtf8Sequence"}) =>
       /\ s' = s
       /\ current_messages' = current_messages
       /\ delivered' = delivered
       /\ cursor' >= cursor]_vars

C17_Witness ==
  /\ res = "Ok0" /\ s = <<97>> /\ ends # {} /\ errs = 1 /\ Len(pulls) = 2

\* C18: a frame with an invalid byte in it gives no line, whatever comes
\* before that byte: the lines delivered and queued are those of the valid
\* frames pulled; a call returns InvalidUtf8Sequence only when it began with
\* the queue empty, and leaves it empty.
C18_WholePayloadValidated ==
  [][ReadMsg =>
       /\ res' = "InvalidUtf8Sequence" =>
            /\ current_messages = <<>>
            /\ current_messages' = <<>>
            /\ delivered' = delivered
       /\ delivered' \o current_messages' =
            PulledLines(SelectSeq(pulls',
              LAMBDA f : \A k \in 1..Len(f.payload) : f.payload[k] # 255))]_vars

C18_Witness ==
  /\ errs = 1 /\ pulls = <<[kind |-> "Frame", at |-> HeaderLen,
                            cursor |-> HeaderLen + 8, payload |-> <<97, LF, 255>>]>>
  /\ delivered = <<>> /\ current_messages = <<>>

\* C19: once the Frame Reader has answered End, every later call finds End
\* again, returns Ok(0) and delivers no line.
C19_EndAbsorbing ==
  [][(ReadMsg /\ lastPull = "End") =>
       /\ lastPull' = "End"
       /\ pulls' = pulls
       /\ res' = "Ok0"
       /\ delivered' = delivered]_vars

====
